---- MODULE Spec2Model ----
(***************************************************************************)
(* DocSync: the alignment analysis pipeline of                             *)
(* services/enhanced_alignment_service.py (EnhancedAlignmentService).      *)
(*                                                                         *)
(* One behaviour is one run of analyze_alignment_with_critique: the input  *)
(* text is chosen in Init, the handler runs up to its first generation     *)
(* call, and each further action is the return of the call in flight       *)
(* together with all the code that runs until the next call is issued or   *)
(* the handler returns.  The generation backend is the environment: every  *)
(* return draws its response from Responses.                               *)
(*                                                                         *)
(* Three further specifications share the module.  ExtractSpec applies     *)
(* _extract_json_from_response once to any short text; MergeSpec applies   *)
(* SyncService._merge_content once to two mappings; SyncSpec is the four   *)
(* connectors of integrations/ with SyncService.collect_all_content of     *)
(* services/sync_service.py.  Each specification leaves the variables of   *)
(* the others as constructed.                                              *)
(***************************************************************************)
EXTENDS Integers, Sequences, FiniteSets, TLC

VARIABLES project_content, processing_method, pc, calls, initial_text,
          critique_text, result,
          extract_response, extracted,
          heap, merge_target, merge_source, merged,
          connected_docs, jira_tickets, linear_tickets, pages, unavailable,
          snapshot,
          hook_payload, changes, doc_versions,
          runs, projects, alignments, clock

\* One run of analyze_alignment_with_critique.
pipeline_vars == <<project_content, processing_method, pc, calls, initial_text,
                   critique_text, result>>

\* One application of _extract_json_from_response.
extract_vars == <<extract_response, extracted>>

\* One application of _merge_content to two mappings on the heap.
merge_vars == <<merge_target, merge_source, merged>>

\* The connectors' stores and the snapshot collect_all_content returned.
sync_vars ==
    <<connected_docs, jira_tickets, linear_tickets, pages, unavailable, snapshot>>

\* The payload of the update notification just handled, the ChangeSet returned
\* for it, and the content each document had when it was last notified.
hook_vars == <<hook_payload, changes, doc_versions>>

\* The requests in progress or served, the Project and Alignment tables, and
\* the time of the next write.
app_vars == <<runs, projects, alignments, clock>>

vars ==
    <<pipeline_vars, extract_vars, heap, merge_vars, sync_vars, hook_vars, app_vars>>

(***************************************************************************)
(* Bounds of the model: the largest slot sizes of the snapshots that Init  *)
(* draws.                                                                  *)
(***************************************************************************)
MaxPrd == 3
MaxStrategy == 2
MaxPrfaq == 1
MaxTickets == 2
MaxFaqs == 3

(***************************************************************************)
(* Program constants.                                                      *)
(***************************************************************************)
\* _determine_processing_method: total_sections < 5
MinSections == 5
\* _determine_processing_method: has_multiple_doc_types < 2
MinDocTypes == 2
\* initial_text[:500], enhanced_text[:500]
PreviewLen == 500
\* _check_for_enhancement_needs: len(prd) < 3
MinPrdSections == 3
\* _check_for_enhancement_needs: len(strategy) < 2
MinStrategySections == 2
\* _check_for_enhancement_needs: len(faqs) < 3
MinFaqs == 3

(***************************************************************************)
(* Python values.  A container is known by its type and its length; a      *)
(* PRFAQ mapping also by its 'frequently_asked_questions' entry.           *)
(***************************************************************************)
NoFaqs == [present |-> FALSE, type |-> "list", len |-> 0]

FaqList(k) == [present |-> TRUE, type |-> "list", len |-> k]

Dict(n) == [type |-> "dict", len |-> n, faqs |-> NoFaqs]

List(n) == [type |-> "list", len |-> n, faqs |-> NoFaqs]

Str(n) == [type |-> "str", len |-> n, faqs |-> NoFaqs]

Prfaq(n, f) == [type |-> "dict", len |-> n, faqs |-> f]

\* Python truthiness of a container, and len().
Truthy(v) == v.len > 0

Slots == {"prd", "prfaq", "strategy", "tickets"}

\* The snapshots of the data model: three mappings and a ticket list.
PrfaqContents ==
    {Dict(0)} \cup
    {Prfaq(n, f) : n \in 1..MaxPrfaq,
                   f \in {NoFaqs} \cup {FaqList(k) : k \in 0..MaxFaqs}}

Snapshots ==
    {[prd |-> Dict(a), prfaq |-> q, strategy |-> Dict(s), tickets |-> List(t)] :
        a \in 0..MaxPrd, q \in PrfaqContents, s \in 0..MaxStrategy,
        t \in 0..MaxTickets}

\* JSON objects that are not snapshots: a slot of the wrong type.
BadSnapshots ==
    {[prd |-> Dict(3), prfaq |-> Str(4), strategy |-> Dict(0), tickets |-> List(2)],
     [prd |-> Dict(0), prfaq |-> Str(4), strategy |-> Dict(0), tickets |-> List(0)],
     [prd |-> Dict(3), prfaq |-> Dict(0), strategy |-> Dict(0), tickets |-> Dict(2)]}

\* The input texts: the serialization of a JSON object, of a JSON value
\* that is no object (a list), or no JSON at all.
EmptySnapshot ==
    [prd |-> Dict(0), prfaq |-> Dict(0), strategy |-> Dict(0), tickets |-> List(0)]

Inputs ==
    {[json |-> "object", value |-> c] : c \in Snapshots \cup BadSnapshots}
    \cup {[json |-> "list", value |-> EmptySnapshot],
          [json |-> "invalid", value |-> EmptySnapshot]}

WellFormed(content) == content \in Snapshots

(***************************************************************************)
(* Exceptions: an operator that can raise yields Raise or Return(v).       *)
(***************************************************************************)
Raise == [raised |-> TRUE]

Return(v) == [raised |-> FALSE, value |-> v]

\* json.loads(project_content)
json_loads(text) ==
    IF text.json = "invalid" THEN Raise
    ELSE Return([type |-> IF text.json = "object" THEN "dict" ELSE "list",
                 items |-> text.value])

(***************************************************************************)
(* Texts.  A text is a sequence of characters; "{" and "}" are the braces, *)
(* "x" is any other character, and "k" and "b" abbreviate the members of a *)
(* JSON object: "k" those of a complete analysis with alignment_score 7,   *)
(* "b" the single member "alignment_score": 11.                            *)
(***************************************************************************)
NoText == <<>>

Ellipsis == <<".", ".", ".">>

LongText == <<"x", "{", "k", "}">> \o [i \in 1..PreviewLen |-> "x"]

Texts ==
    {<<"x", "x">>,
     <<"{", "k", "}">>,
     <<"x", "{", "b", "}", "x">>,
     <<"{", "x", "}">>,
     LongText}

\* text[:n]
Prefix(text, n) == SubSeq(text, 1, IF Len(text) < n THEN Len(text) ELSE n)

(***************************************************************************)
(* Analysis payloads.                                                      *)
(***************************************************************************)
\* The structure _extract_json_from_response falls back to.
MinimalPayload ==
    [alignment_score |-> 5,
     critical_misalignments |-> <<>>,
     suggestions |-> <<>>,
     overall_assessment |-> "Alignment analysis completed with basic processing."]

\* The object a text's members parse to.
MemberValue(m) ==
    IF m = "k"
    THEN [alignment_score |-> 7,
          critical_misalignments |-> <<>>,
          suggestions |-> <<>>,
          overall_assessment |-> "Documents are mostly aligned."]
    ELSE [alignment_score |-> 11]

\* json.loads of a text that starts with a brace: an object with one group
\* of members parses, anything else raises JSONDecodeError.
json_loads_object(s) ==
    IF Len(s) = 3 /\ s[1] = "{" /\ s[3] = "}" /\ s[2] \in {"k", "b"}
    THEN Return(MemberValue(s[2]))
    ELSE Raise

Min(S) == CHOOSE i \in S : \A j \in S : i <= j

Max(S) == CHOOSE i \in S : \A j \in S : j <= i

Positions(text, c) == {i \in 1..Len(text) : text[i] = c}

\* Mutant: a lazy match, from the first "{" to the first "}" after it.
json_match_first_close(text) ==
    LET opens == Positions(text, "{")
        closes == {j \in Positions(text, "}") : opens # {} /\ j > Min(opens)}
    IN IF closes # {} THEN Return(SubSeq(text, Min(opens), Min(closes)))
       ELSE Raise

\* Mutant: re.match, a match at the start of the text only.
json_match_anchored(text) ==
    IF Len(text) > 0 /\ text[1] = "{" /\ Positions(text, "}") # {}
    THEN Return(SubSeq(text, 1, Max(Positions(text, "}"))))
    ELSE Raise

\* re.search(r'(\{[\s\S]*\})', text): from the first "{" to the last "}".
json_match(text) ==
    LET opens == Positions(text, "{")
        closes == Positions(text, "}")
    IN IF opens # {} /\ closes # {} /\ Min(opens) < Max(closes)
       THEN Return(SubSeq(text, Min(opens), Max(closes)))
       ELSE Raise

(***************************************************************************)
(* What _call_claude_api returns: None, or the body of a 200 answer, which *)
(* is any JSON value.                                                      *)
(***************************************************************************)
\* None: no API key, a status other than 200, a timeout or another exception.
NoneResponse == [shape |-> "none", text |-> NoText]

\* A body that is falsy in Python: {}.
EmptyResponse == [shape |-> "empty", text |-> NoText]

\* {'content': [{'text': t}]}
Message(t) == [shape |-> "message", text |-> t]

\* A mapping without 'content', such as {'type': 'error'}.
NoContentResponse == [shape |-> "nocontent", text |-> NoText]

\* A mapping whose 'content' has no first text: {'content': []}.
BadContentResponse == [shape |-> "badcontent", text |-> NoText]

\* A body that is no mapping: [1].
NonDictResponse == [shape |-> "nondict", text |-> NoText]

\* A str, as _package_simple_result and the refine step pass it.
StrValue(t) == [shape |-> "str", text |-> t]

Pending == [shape |-> "pending", text |-> NoText]

Responses ==
    {NoneResponse, EmptyResponse, NoContentResponse, BadContentResponse,
     NonDictResponse} \cup {Message(t) : t \in Texts}

\* Python truthiness of a response.
ResponseTruthy(response) == response.shape \notin {"none", "empty"}

\* response['content'][0]['text']
content_text(response) ==
    IF response.shape = "message" THEN Return(response.text) ELSE Raise

\* str(response): the repr of a mapping is brace-delimited and quotes its
\* keys with ', which is no JSON; the repr of a list has no brace.
str(response) ==
    CASE response.shape = "str" -> response.text
      [] response.shape = "nocontent" -> <<"{", "x", "}">>
      [] OTHER -> <<"x">>

_extract_json_from_response(response) ==
    LET text == IF response.shape \in {"message", "badcontent"}
                THEN content_text(response)
                ELSE Return(str(response))
    IN IF text.raised THEN Raise
       ELSE LET m == json_match(text.value)
                parsed == IF m.raised THEN Raise ELSE json_loads_object(m.value)
            IN IF parsed.raised THEN Return(MinimalPayload) ELSE parsed

_fallback_analysis ==
    [analysis |->
        [alignment_score |-> 5,
         critical_misalignments |-> <<>>,
         suggestions |-> <<[type |-> "general", action |-> "review",
                            description |-> "Review all documents for consistency and alignment",
                            priority |-> "Medium", source |-> "all", target |-> "all"]>>,
         overall_assessment |-> "Basic alignment check completed. Consider manual review of document consistency."],
     processing_method |-> "fallback",
     api_calls_used |-> 0,
     enhancement_suggestions |-> <<>>]

(***************************************************************************)
(* Strategy selection and enhancement hints.                               *)
(***************************************************************************)
\* The contribution of one item of content_dict to total_sections.
section_count(doc_type, content) ==
    IF doc_type = "tickets"
    THEN (IF content.type = "list" THEN content.len ELSE 0)
    ELSE (IF content.type = "dict" THEN content.len ELSE 0)

RECURSIVE total_sections(_, _)
total_sections(content_dict, keys) ==
    IF keys = {} THEN 0
    ELSE LET k == CHOOSE x \in keys : TRUE
         IN section_count(k, content_dict[k]) + total_sections(content_dict, keys \ {k})

has_multiple_doc_types(content_dict) ==
    Cardinality({k \in DOMAIN content_dict : Truthy(content_dict[k])})

\* Mutant: the two thresholds joined by "and".
determine_with_and(parsed) ==
    IF parsed.type # "dict" THEN Raise
    ELSE IF /\ total_sections(parsed.items, DOMAIN parsed.items) < MinSections
            /\ has_multiple_doc_types(parsed.items) < MinDocTypes
         THEN Return("simple")
         ELSE Return("self_critique")

\* content_dict.items() raises on a value that is no mapping.
_determine_processing_method(parsed) ==
    IF parsed.type # "dict" THEN Raise
    ELSE IF \/ total_sections(parsed.items, DOMAIN parsed.items) < MinSections
            \/ has_multiple_doc_types(parsed.items) < MinDocTypes
         THEN Return("simple")
         ELSE Return("self_critique")

PrdHint ==
    [document_type |-> "prd",
     suggestion |-> "PRD appears incomplete. Consider using DocMint to enhance structure and clarity.",
     priority |-> "Medium"]

StrategyHint ==
    [document_type |-> "strategy",
     suggestion |-> "Strategy document could be more comprehensive. DocMint can help structure and enhance it.",
     priority |-> "Medium"]

PrfaqHint ==
    [document_type |-> "prfaq",
     suggestion |-> "PRFAQ could benefit from more comprehensive FAQs. DocMint can help generate better customer messaging.",
     priority |-> "Low"]

\* prfaq.get('frequently_asked_questions', [])
faqs_of(prfaq) == IF prfaq.faqs.present THEN prfaq.faqs ELSE FaqList(0)

\* Mutant: a hint for every slot below its threshold, an empty one too.
check_needs_of_empty_slots(content_dict) ==
    LET prd == content_dict["prd"]
        strategy == content_dict["strategy"]
        prfaq == content_dict["prfaq"]
        h1 == IF prd.len < MinPrdSections THEN <<PrdHint>> ELSE <<>>
        h2 == IF strategy.len < MinStrategySections THEN <<StrategyHint>> ELSE <<>>
        h3 == IF faqs_of(prfaq).type = "list" /\ faqs_of(prfaq).len < MinFaqs
              THEN <<PrfaqHint>> ELSE <<>>
    IN IF Truthy(prfaq) /\ prfaq.type # "dict" THEN Raise
       ELSE Return(h1 \o h2 \o h3)

\* prfaq.get raises on a truthy value that is no mapping.
_check_for_enhancement_needs(content_dict) ==
    LET prd == content_dict["prd"]
        strategy == content_dict["strategy"]
        prfaq == content_dict["prfaq"]
        h1 == IF Truthy(prd) /\ prd.len < MinPrdSections THEN <<PrdHint>> ELSE <<>>
        h2 == IF Truthy(strategy) /\ strategy.len < MinStrategySections
              THEN <<StrategyHint>> ELSE <<>>
        h3 == IF Truthy(prfaq) /\ faqs_of(prfaq).type = "list"
                 /\ faqs_of(prfaq).len < MinFaqs
              THEN <<PrfaqHint>> ELSE <<>>
    IN IF Truthy(prfaq) /\ prfaq.type # "dict" THEN Raise
       ELSE Return(h1 \o h2 \o h3)

(***************************************************************************)
(* Prompts.  A prompt is known by what it embeds.                          *)
(***************************************************************************)
NoPrompt ==
    [kind |-> "none", content |-> EmptySnapshot, truncated |-> FALSE,
     initial_text |-> NoText, critique_text |-> NoText]

\* json.dumps(content_dict, indent=2) in full
_create_alignment_prompt(content_dict) ==
    [kind |-> "alignment", content |-> content_dict, truncated |-> FALSE,
     initial_text |-> NoText, critique_text |-> NoText]

\* Mutant: the critique prompt built without the first answer.
critique_prompt_without_initial(content_dict, initial) ==
    [kind |-> "critique", content |-> content_dict, truncated |-> TRUE,
     initial_text |-> NoText, critique_text |-> NoText]

\* initial_text and json.dumps(content_dict, indent=2)[:2000]
critique_prompt(content_dict, initial) ==
    [kind |-> "critique", content |-> content_dict, truncated |-> TRUE,
     initial_text |-> initial, critique_text |-> NoText]

\* initial_text, critique_text and json.dumps(content_dict, indent=2)[:2000]
enhanced_prompt(content_dict, initial, critique) ==
    [kind |-> "refine", content |-> content_dict, truncated |-> TRUE,
     initial_text |-> initial, critique_text |-> critique]

(***************************************************************************)
(* The handler between two generation calls.  A step either ends the run   *)
(* with an outcome or issues the next call.                                *)
(***************************************************************************)
Done(outcome) ==
    [next |-> "done", outcome |-> outcome, prompt |-> NoPrompt, max_tokens |-> 0]

Call(step, prompt, max_tokens) ==
    [next |-> step, outcome |-> Raise, prompt |-> prompt, max_tokens |-> max_tokens]

\* Mutant: no handler around the body.
NoCatch(step) == step

\* analyze_alignment_with_critique: except Exception, return the fallback.
Catch(step) ==
    IF step.next = "done" /\ step.outcome.raised
    THEN Done(Return(_fallback_analysis)) ELSE step

\* _self_critique_alignment_analysis: except Exception, return the fallback.
CatchSelfCritique(step) ==
    IF step.next = "done" /\ step.outcome.raised
    THEN Done(Return(_fallback_analysis)) ELSE step

\* Mutant: the count of the critique failure, whatever step failed.
package_always_two(result_text, content_dict, api_calls) ==
    LET analysis_json == _extract_json_from_response(StrValue(result_text))
        hints == _check_for_enhancement_needs(content_dict)
    IN IF analysis_json.raised \/ hints.raised THEN Raise
       ELSE Return([analysis |-> analysis_json.value,
                    processing_method |-> "simple_fallback",
                    api_calls_used |-> 2,
                    enhancement_suggestions |-> hints.value])

\* Mutant: a degraded result without the enhancement hints.
package_without_hints(result_text, content_dict, api_calls) ==
    LET analysis_json == _extract_json_from_response(StrValue(result_text))
    IN IF analysis_json.raised THEN Raise
       ELSE Return([analysis |-> analysis_json.value,
                    processing_method |-> "simple_fallback",
                    api_calls_used |-> api_calls,
                    enhancement_suggestions |-> <<>>])

_package_simple_result(result_text, content_dict, api_calls) ==
    LET analysis_json == _extract_json_from_response(StrValue(result_text))
        hints == _check_for_enhancement_needs(content_dict)
    IN IF analysis_json.raised \/ hints.raised THEN Raise
       ELSE Return([analysis |-> analysis_json.value,
                    processing_method |-> "simple_fallback",
                    api_calls_used |-> api_calls,
                    enhancement_suggestions |-> hints.value])

\* Mutant: a truthy response packaged as a degraded result.
simple_result_degraded(content_dict, response) ==
    IF ResponseTruthy(response)
    THEN LET analysis_json == _extract_json_from_response(response)
             hints == _check_for_enhancement_needs(content_dict)
         IN IF analysis_json.raised \/ hints.raised THEN Raise
            ELSE Return([analysis |-> analysis_json.value,
                         processing_method |-> "simple_fallback",
                         api_calls_used |-> 1,
                         enhancement_suggestions |-> hints.value])
    ELSE Return(_fallback_analysis)

\* _simple_alignment_analysis from the return of its call.
simple_result(content_dict, response) ==
    IF ResponseTruthy(response)
    THEN LET analysis_json == _extract_json_from_response(response)
             hints == _check_for_enhancement_needs(content_dict)
         IN IF analysis_json.raised \/ hints.raised THEN Raise
            ELSE Return([analysis |-> analysis_json.value,
                         processing_method |-> "simple",
                         api_calls_used |-> 1,
                         enhancement_suggestions |-> hints.value])
    ELSE Return(_fallback_analysis)

\* Mutant: the analysis taken from the first answer, not the refined one.
self_critique_result_from_initial(content_dict, initial, critique, enhanced) ==
    LET analysis_json == _extract_json_from_response(StrValue(initial))
        hints == _check_for_enhancement_needs(content_dict)
    IN IF analysis_json.raised \/ hints.raised THEN Raise
       ELSE Return([analysis |-> analysis_json.value,
                    processing_method |-> "self_critique",
                    api_calls_used |-> 3,
                    enhancement_suggestions |-> hints.value,
                    process_details |->
                        [initial_response |-> Prefix(initial, PreviewLen) \o Ellipsis,
                         critique |-> critique,
                         enhanced_response |-> Prefix(enhanced, PreviewLen) \o Ellipsis]])

\* Mutant: the refined result without process_details.
self_critique_result_without_details(content_dict, initial, critique, enhanced) ==
    LET analysis_json == _extract_json_from_response(StrValue(enhanced))
        hints == _check_for_enhancement_needs(content_dict)
    IN IF analysis_json.raised \/ hints.raised THEN Raise
       ELSE Return([analysis |-> analysis_json.value,
                    processing_method |-> "self_critique",
                    api_calls_used |-> 3,
                    enhancement_suggestions |-> hints.value])

\* The packaging of the three texts.
self_critique_result(content_dict, initial, critique, enhanced) ==
    LET analysis_json == _extract_json_from_response(StrValue(enhanced))
        hints == _check_for_enhancement_needs(content_dict)
    IN IF analysis_json.raised \/ hints.raised THEN Raise
       ELSE Return([analysis |-> analysis_json.value,
                    processing_method |-> "self_critique",
                    api_calls_used |-> 3,
                    enhancement_suggestions |-> hints.value,
                    process_details |->
                        [initial_response |-> Prefix(initial, PreviewLen) \o Ellipsis,
                         critique |-> critique,
                         enhanced_response |-> Prefix(enhanced, PreviewLen) \o Ellipsis]])

\* The local processing_method of analyze_alignment_with_critique.
selected_method(text) ==
    IF json_loads(text).raised THEN Raise
    ELSE _determine_processing_method(json_loads(text).value)

\* analyze_alignment_with_critique up to the first call.
analyze_entry(text) ==
    LET parsed == json_loads(text)
        method == selected_method(text)
    IN IF method.raised THEN Done(Raise)
       ELSE IF method.value = "simple"
            THEN Call("simple", _create_alignment_prompt(parsed.value.items), 2000)
            ELSE Call("generate", _create_alignment_prompt(parsed.value.items), 2000)

\* Mutant: a failed first call is tried once more.
after_generate_retry(content_dict, response) ==
    IF ~ResponseTruthy(response)
    THEN (IF Len(calls) = 1
          THEN Call("generate", _create_alignment_prompt(content_dict), 2000)
          ELSE Done(Return(_fallback_analysis)))
    ELSE IF content_text(response).raised THEN Done(Raise)
    ELSE Call("critique",
              critique_prompt(content_dict, content_text(response).value), 1000)

\* Mutant: a failed first call does not stop the sequence.
after_generate_continue(content_dict, response) ==
    IF content_text(response).raised
    THEN Call("critique", critique_prompt(content_dict, NoText), 1000)
    ELSE Call("critique",
              critique_prompt(content_dict, content_text(response).value), 1000)

\* Step 1 of _self_critique_alignment_analysis from the return of its call.
after_generate(content_dict, response) ==
    IF ~ResponseTruthy(response) THEN Done(Return(_fallback_analysis))
    ELSE IF content_text(response).raised THEN Done(Raise)
    ELSE Call("critique",
              critique_prompt(content_dict, content_text(response).value), 1000)

\* Step 2 from the return of its call.
after_critique(content_dict, initial, response) ==
    IF ~ResponseTruthy(response)
    THEN Done(_package_simple_result(initial, content_dict, 2))
    ELSE IF content_text(response).raised THEN Done(Raise)
    ELSE Call("refine",
              enhanced_prompt(content_dict, initial, content_text(response).value),
              2000)

\* Mutant: a refine failure counted as a critique failure.
after_refine_counting_two(content_dict, initial, critique, response) ==
    IF ~ResponseTruthy(response)
    THEN Done(_package_simple_result(initial, content_dict, 2))
    ELSE IF content_text(response).raised THEN Done(Raise)
    ELSE Done(self_critique_result(content_dict, initial, critique,
                                   content_text(response).value))

\* Step 3 from the return of its call.
after_refine(content_dict, initial, critique, response) ==
    IF ~ResponseTruthy(response)
    THEN Done(_package_simple_result(initial, content_dict, 3))
    ELSE IF content_text(response).raised THEN Done(Raise)
    ELSE Done(self_critique_result(content_dict, initial, critique,
                                   content_text(response).value))

(***************************************************************************)
(* The state machine.                                                      *)
(***************************************************************************)
NoResult ==
    [processing_method |-> "none", api_calls_used |-> 0,
     enhancement_suggestions |-> <<>>]

ContentDict == project_content.value

NewCall(step) ==
    [step |-> step.next, prompt |-> step.prompt, max_tokens |-> step.max_tokens,
     response |-> Pending]

\* The call in flight returns `response`.
Answered(response) ==
    [calls EXCEPT ![Len(calls)] = [@ EXCEPT !.response = response]]

\* The handler moves on as `step` says, from the call log `log`.
Advance(step, log) ==
    /\ pc' = IF step.next # "done" THEN step.next
             ELSE IF step.outcome.raised THEN "raised" ELSE "done"
    /\ result' = IF step.next = "done" /\ ~step.outcome.raised
                 THEN step.outcome.value ELSE NoResult
    /\ calls' = IF step.next = "done" THEN log ELSE Append(log, NewCall(step))

\* No outcome yet: the function has not been applied.
NoOutcome == [pending |-> TRUE]

\* The parts of the state a specification does not exercise stay as
\* constructed.
PipelineIdle ==
    /\ project_content = [json |-> "invalid", value |-> EmptySnapshot]
    /\ processing_method = "none"
    /\ pc = "idle"
    /\ calls = <<>>
    /\ initial_text = NoText
    /\ critique_text = NoText
    /\ result = NoResult

ExtractIdle == extract_response = Pending /\ extracted = NoOutcome

MergeIdle == merge_target = 0 /\ merge_source = 0 /\ merged = FALSE

SyncIdle ==
    /\ connected_docs = <<>>
    /\ jira_tickets = <<>>
    /\ linear_tickets = <<>>
    /\ pages = <<>>
    /\ unavailable = "none"
    /\ snapshot = NoOutcome

HookIdle ==
    /\ hook_payload = NoOutcome
    /\ changes = NoOutcome
    /\ doc_versions = <<>>

\* A request slot that no request has taken.
NoRun ==
    [kind |-> "none", pc |-> "idle", changes |-> NoOutcome, steps |-> <<>>,
     content |-> [json |-> "invalid", value |-> EmptySnapshot],
     method |-> "none", calls |-> 0, result |-> NoResult, project |-> 0]

MaxRequests == 2

Requests == 1..MaxRequests

AppIdle ==
    /\ runs = [r \in Requests |-> NoRun]
    /\ projects = <<>>
    /\ alignments = <<>>
    /\ clock = 0

Init ==
    /\ project_content \in Inputs
    /\ processing_method = "none"
    /\ pc = "start"
    /\ calls = <<>>
    /\ initial_text = NoText
    /\ critique_text = NoText
    /\ result = NoResult
    /\ ExtractIdle
    /\ heap = <<>>
    /\ MergeIdle
    /\ SyncIdle
    /\ HookIdle
    /\ AppIdle

Analyze ==
    /\ pc = "start"
    /\ Advance(Catch(analyze_entry(project_content)), calls)
    /\ processing_method' = IF selected_method(project_content).raised THEN "none"
                            ELSE selected_method(project_content).value
    /\ UNCHANGED <<project_content, initial_text, critique_text>>
    /\ UNCHANGED <<extract_vars, heap, merge_vars, sync_vars, hook_vars, app_vars>>

SimpleReturns ==
    /\ pc = "simple"
    /\ \E response \in Responses :
          Advance(Catch(Done(simple_result(ContentDict, response))),
                  Answered(response))
    /\ UNCHANGED <<project_content, processing_method, initial_text, critique_text>>
    /\ UNCHANGED <<extract_vars, heap, merge_vars, sync_vars, hook_vars, app_vars>>

GenerateReturns ==
    /\ pc = "generate"
    /\ \E response \in Responses :
          /\ Advance(Catch(CatchSelfCritique(after_generate(ContentDict, response))),
                     Answered(response))
          /\ initial_text' = IF content_text(response).raised THEN NoText
                             ELSE content_text(response).value
    /\ UNCHANGED <<project_content, processing_method, critique_text>>
    /\ UNCHANGED <<extract_vars, heap, merge_vars, sync_vars, hook_vars, app_vars>>

CritiqueReturns ==
    /\ pc = "critique"
    /\ \E response \in Responses :
          /\ Advance(Catch(CatchSelfCritique(after_critique(ContentDict, initial_text,
                                                        response))),
                     Answered(response))
          /\ critique_text' = IF content_text(response).raised THEN NoText
                              ELSE content_text(response).value
    /\ UNCHANGED <<project_content, processing_method, initial_text>>
    /\ UNCHANGED <<extract_vars, heap, merge_vars, sync_vars, hook_vars, app_vars>>

RefineReturns ==
    /\ pc = "refine"
    /\ \E response \in Responses :
          Advance(Catch(CatchSelfCritique(after_refine(ContentDict, initial_text,
                                                   critique_text, response))),
                  Answered(response))
    /\ UNCHANGED <<project_content, processing_method, initial_text, critique_text>>
    /\ UNCHANGED <<extract_vars, heap, merge_vars, sync_vars, hook_vars, app_vars>>

Next ==
    \/ Analyze
    \/ SimpleReturns
    \/ GenerateReturns
    \/ CritiqueReturns
    \/ RefineReturns

Spec == Init /\ [][Next]_vars

(***************************************************************************)
(* Vocabulary of the properties.                                           *)
(***************************************************************************)
\* The input is the serialization of a snapshot of the data model.
SnapshotInput == project_content.json = "object" /\ WellFormed(ContentDict)

\* A generation call failed: the handler got None or a falsy body.
Failed(response) == response.shape \in {"none", "empty"}

\* A generation call succeeded: the handler got a message with a text.
Succeeded(response) == response.shape = "message"

\* Total sections and non-empty slots, as the specification counts them.
TotalSections(c) == c.prd.len + c.prfaq.len + c.strategy.len + c.tickets.len

NonEmptySlots(c) == Cardinality({slot \in Slots : c[slot].len > 0})

InFlight == {i \in 1..Len(calls) : calls[i].response = Pending}

Completed == pc = "done"

C2_StrictSequence ==
    /\ \A i \in 1..Len(calls) :
          /\ calls[i].step = "critique" =>
                /\ i = 2 /\ calls[1].step = "generate"
                /\ Succeeded(calls[1].response)
                /\ calls[i].prompt.initial_text = calls[1].response.text
          /\ calls[i].step = "refine" =>
                /\ i = 3 /\ calls[1].step = "generate" /\ calls[2].step = "critique"
                /\ Succeeded(calls[1].response) /\ Succeeded(calls[2].response)
                /\ calls[i].prompt.initial_text = calls[1].response.text
                /\ calls[i].prompt.critique_text = calls[2].response.text
    /\ InFlight \subseteq {Len(calls)}

\* The refine call is in flight after two answered calls.
C2_Witness ==
    /\ pc = "refine" /\ Len(calls) = 3 /\ InFlight = {3}
    /\ calls[3].prompt.initial_text # calls[3].prompt.critique_text

(***************************************************************************)
(* C3 as stated: when the three calls of the self-critique path succeed,   *)
(* the result is self_critique with 3 calls, the analysis extracted from   *)
(* the refined answer, the critique verbatim, and the first and refined    *)
(* answers cut to their first 500 characters.                              *)
(***************************************************************************)
AllThreeSucceeded ==
    /\ Completed /\ SnapshotInput /\ Len(calls) = 3
    /\ \A i \in 1..3 : Succeeded(calls[i].response)

C3_Original ==
    AllThreeSucceeded =>
        /\ result.processing_method = "self_critique"
        /\ result.api_calls_used = 3
        /\ result.analysis =
              _extract_json_from_response(StrValue(calls[3].response.text)).value
        /\ result.process_details.critique = calls[2].response.text
        /\ result.process_details.initial_response =
              Prefix(calls[1].response.text, 500)
        /\ result.process_details.enhanced_response =
              Prefix(calls[3].response.text, 500)

(***************************************************************************)
(* C3 amended: as C3, but the first and refined answers are stored as      *)
(* their first 500 characters followed by "...", whatever their length.    *)
(***************************************************************************)
C3_SelfCritiqueResult ==
    AllThreeSucceeded =>
        /\ result.processing_method = "self_critique"
        /\ result.api_calls_used = 3
        /\ result.analysis =
              _extract_json_from_response(StrValue(calls[3].response.text)).value
        /\ result.process_details.critique = calls[2].response.text
        /\ result.process_details.initial_response =
              Prefix(calls[1].response.text, 500) \o <<".", ".", ".">>
        /\ result.process_details.enhanced_response =
              Prefix(calls[3].response.text, 500) \o <<".", ".", ".">>

\* Three successes, a first answer longer than 500 characters, and first and
\* refined answers that parse differently.
C3_Witness ==
    /\ AllThreeSucceeded
    /\ Len(calls[1].response.text) > 500
    /\ Len(calls[3].response.text) < 500
    /\ _extract_json_from_response(StrValue(calls[1].response.text))
          # _extract_json_from_response(StrValue(calls[3].response.text))

(***************************************************************************)
(* C4: on the simple path exactly one generation call is issued, and when  *)
(* it succeeds the result is simple with 1 call and the analysis extracted *)
(* from that response.                                                     *)
(***************************************************************************)
C4_SimplePath ==
    (processing_method = "simple") =>
        /\ Len(calls) = 1
        /\ calls[1].prompt = _create_alignment_prompt(ContentDict)
        /\ (Completed /\ SnapshotInput /\ Succeeded(calls[1].response)) =>
              /\ result.processing_method = "simple"
              /\ result.api_calls_used = 1
              /\ result.analysis =
                    _extract_json_from_response(calls[1].response).value

\* A simple run whose call returned a JSON object wrapped in prose.
C4_Witness ==
    /\ processing_method = "simple" /\ Completed /\ SnapshotInput
    /\ Succeeded(calls[1].response)
    /\ result.analysis # MinimalPayload

(***************************************************************************)
(* C5: if the first generation call fails, on either path, or the input    *)
(* text does not parse, the result is the fixed fallback: method fallback, *)
(* 0 calls, score 5, no critical misalignment, one "review" suggestion;    *)
(* and no second or third call is issued.                                  *)
(***************************************************************************)
FixedFallback(r) ==
    /\ r.processing_method = "fallback"
    /\ r.api_calls_used = 0
    /\ r.analysis.alignment_score = 5
    /\ r.analysis.critical_misalignments = <<>>
    /\ Len(r.analysis.suggestions) = 1
    /\ r.analysis.suggestions[1].action = "review"

C5_FirstCallFailure ==
    /\ (Len(calls) >= 1 /\ Failed(calls[1].response)) =>
          Completed /\ Len(calls) = 1 /\ FixedFallback(result)
    /\ (pc # "start" /\ project_content.json = "invalid") =>
          Completed /\ calls = <<>> /\ FixedFallback(result)

\* The first call of a self-critique run failed.
C5_Witness ==
    /\ processing_method = "self_critique" /\ Completed
    /\ Len(calls) = 1 /\ calls[1].response = NoneResponse

(***************************************************************************)
(* C6: on the self-critique path, if step 1 succeeds and a later step      *)
(* fails, the result is simple_fallback with the analysis extracted from   *)
(* step 1's text; 2 calls when the critique failed, 3 when the critique    *)
(* succeeded and the refine failed.                                        *)
(***************************************************************************)
C6_Degradation ==
    (/\ Completed /\ SnapshotInput /\ processing_method = "self_critique"
     /\ Len(calls) >= 2 /\ Succeeded(calls[1].response)
     /\ Failed(calls[Len(calls)].response)
     /\ \A i \in 1..(Len(calls) - 1) : Succeeded(calls[i].response)) =>
        /\ result.processing_method = "simple_fallback"
        /\ result.analysis =
              _extract_json_from_response(StrValue(calls[1].response.text)).value
        /\ result.api_calls_used = Len(calls)
        /\ Len(calls) \in {2, 3}

\* The refine call failed after two successes.
C6_Witness ==
    /\ Completed /\ SnapshotInput /\ Len(calls) = 3
    /\ Succeeded(calls[1].response) /\ Succeeded(calls[2].response)
    /\ calls[3].response = NoneResponse
    /\ result.api_calls_used = 3

(***************************************************************************)
(* C7 as stated: in every result, api_calls_used is the number of          *)
(* generation calls attempted in the run.                                  *)
(***************************************************************************)
C7_Original == Completed => result.api_calls_used = Len(calls)

(***************************************************************************)
(* C7 amended: in every result other than the fallback, api_calls_used is  *)
(* the number of generation calls attempted; the fallback reports 0,       *)
(* however many calls were attempted.                                      *)
(***************************************************************************)
C7_CallsAttempted ==
    Completed =>
        result.api_calls_used =
            IF result.processing_method = "fallback" THEN 0 ELSE Len(calls)

\* A degraded result after a failed refine call.
C7_Witness ==
    /\ Completed /\ result.processing_method = "simple_fallback"
    /\ Len(calls) = 3 /\ Failed(calls[3].response)

(***************************************************************************)
(* C8: analyze_alignment_with_critique never raises: for every input and   *)
(* every backend outcome it returns a record with analysis, a              *)
(* processing_method among the four, api_calls_used >= 0 and               *)
(* enhancement_suggestions.                                                *)
(***************************************************************************)
C8_NeverRaises ==
    /\ pc # "raised"
    /\ Completed =>
          /\ {"analysis", "processing_method", "api_calls_used",
              "enhancement_suggestions"} \subseteq DOMAIN result
          /\ result.processing_method \in
                {"simple", "self_critique", "simple_fallback", "fallback"}
          /\ result.api_calls_used >= 0

\* A simple run whose call returned a body with an empty 'content'.
C8_Witness ==
    /\ Completed /\ processing_method = "simple"
    /\ calls[1].response = BadContentResponse
    /\ result.processing_method = "fallback"

(***************************************************************************)
(* C9: every run ends in a completed state, after at most 3 generation     *)
(* calls (at most 1 on the simple path); each step is attempted at most    *)
(* once and a failed call is never followed by another call.  Termination  *)
(* is stated by a measure: a run that has not completed stands at the      *)
(* start or at a call in flight, where it can always take a step (the      *)
(* guard of each action is its position, and every call returns:           *)
(* requests.post is given timeout=30), and every step either completes the *)
(* run or adds a call to a log of at most 3.                               *)
(***************************************************************************)
Running == pc \in {"start", "simple", "generate", "critique", "refine"}

C9_Bounded ==
    /\ pc # "raised"
    /\ Len(calls) <= 3
    /\ processing_method = "simple" => Len(calls) <= 1
    /\ \A i, j \in 1..Len(calls) : calls[i].step = calls[j].step => i = j
    /\ \A i \in 1..Len(calls) : Failed(calls[i].response) => i = Len(calls)

C9_Terminates ==
    /\ [](C9_Bounded /\ (Completed \/ Running))
    /\ [][Completed' \/ Len(calls') > Len(calls)]_vars

\* A run completed after three calls, the last one failed.
C9_Witness == Completed /\ Len(calls) = 3 /\ Failed(calls[3].response)

(***************************************************************************)
(* C10: in every result the analysis carries an alignment_score that is    *)
(* an integer from 1 to 10, whatever text the backend returned.            *)
(***************************************************************************)
C10_ScoreInRange ==
    Completed =>
        /\ "alignment_score" \in DOMAIN result.analysis
        /\ result.analysis.alignment_score \in 1..10

(***************************************************************************)
(* JSON extraction on its own: _extract_json_from_response applied once to *)
(* a response whose text is any sequence of at most MaxTextLen characters.  *)
(***************************************************************************)
MaxTextLen == 5

Characters == {"{", "}", "x", "k", "b"}

RECURSIVE TextsOfLen(_)
TextsOfLen(n) ==
    IF n = 0 THEN {<<>>}
    ELSE {Append(t, c) : t \in TextsOfLen(n - 1), c \in Characters}

AnyTexts == UNION {TextsOfLen(n) : n \in 0..MaxTextLen}

ExtractInputs ==
    {NoneResponse, EmptyResponse, NoContentResponse, BadContentResponse,
     NonDictResponse}
    \cup {Message(t) : t \in AnyTexts} \cup {StrValue(t) : t \in AnyTexts}

ExtractInit ==
    /\ extract_response \in ExtractInputs
    /\ extracted = NoOutcome
    /\ PipelineIdle
    /\ heap = <<>>
    /\ MergeIdle
    /\ SyncIdle
    /\ HookIdle
    /\ AppIdle

ExtractJson ==
    /\ extracted = NoOutcome
    /\ extracted' = _extract_json_from_response(extract_response)
    /\ UNCHANGED <<extract_response, pipeline_vars, heap, merge_vars, sync_vars,
                   hook_vars, app_vars>>

ExtractNext == ExtractJson

ExtractSpec == ExtractInit /\ [][ExtractNext]_vars

\* The response carries a text: a message of the backend or a str.
HasText == extract_response.shape \in {"message", "str"}

\* A complete analysis as a JSON object, and what it parses to.
PayloadText == <<"{", "k", "}">>

Payload == MemberValue("k")

(***************************************************************************)
(* C11: extraction takes the substring from the first "{" to the last "}"  *)
(* of the response text and returns its parse; when there is no such       *)
(* substring, or it does not parse, it returns the fixed minimal payload,  *)
(* and it does not raise.                                                  *)
(***************************************************************************)
C11_IsSpan(text, i, j) ==
    /\ i < j
    /\ text[i] = "{" /\ \A m \in 1..(i - 1) : text[m] # "{"
    /\ text[j] = "}" /\ \A m \in (j + 1)..Len(text) : text[m] # "}"

C11_Extraction ==
    (extracted # NoOutcome /\ HasText) =>
        LET text == extract_response.text
            spans == {ij \in (1..Len(text)) \X (1..Len(text)) :
                         C11_IsSpan(text, ij[1], ij[2])}
        IN /\ ~extracted.raised
           /\ \A ij \in spans :
                 LET parse == json_loads_object(SubSeq(text, ij[1], ij[2]))
                 IN extracted.value = IF parse.raised THEN MinimalPayload
                                      ELSE parse.value
           /\ spans = {} => extracted.value = MinimalPayload
           /\ extracted.value = MinimalPayload =>
                 /\ extracted.value.alignment_score = 5
                 /\ extracted.value.critical_misalignments = <<>>
                 /\ extracted.value.suggestions = <<>>

\* A text whose span from the first "{" to the last "}" holds a brace too
\* many and does not parse.
C11_Witness ==
    /\ extracted # NoOutcome /\ HasText
    /\ extract_response.text = <<"x", "{", "k", "}", "}">>
    /\ extracted = Return(MinimalPayload)

(***************************************************************************)
(* C12: extraction recovers the payload J from a response prose + J +      *)
(* prose.  As stated, for arbitrary prose, this fails: a "{" in the prose  *)
(* before J or a "}" in the prose after it widens the span that is parsed. *)
(* It holds when the prose before J has no "{" and the prose after J has   *)
(* no "}".                                                                 *)
(***************************************************************************)
\* The text is before \o PayloadText \o after, with the payload at i.
C12_PayloadAt(i) ==
    /\ i + Len(PayloadText) - 1 <= Len(extract_response.text)
    /\ SubSeq(extract_response.text, i, i + Len(PayloadText) - 1) = PayloadText

C12_Before(i) == SubSeq(extract_response.text, 1, i - 1)

C12_After(i) ==
    SubSeq(extract_response.text, i + Len(PayloadText),
           Len(extract_response.text))

Hinted(document_type) ==
    \E i \in 1..Len(result.enhancement_suggestions) :
        result.enhancement_suggestions[i].document_type = document_type

\* A run on a snapshot returned a result that _check_for_enhancement_needs
\* contributed to.
HintedResult ==
    /\ Completed /\ SnapshotInput
    /\ result.processing_method \in {"simple", "self_critique", "simple_fallback"}

\* The entries of the PRFAQ's FAQ list; a PRFAQ without the list has none.
FaqEntries(c) == IF c.prfaq.faqs.present THEN c.prfaq.faqs.len ELSE 0

(***************************************************************************)
(* C13: the hints name 'prd' exactly when the PRD slot has fewer than 3    *)
(* sections, 'strategy' exactly when the strategy slot has fewer than 2,   *)
(* and 'prfaq' exactly when the PRFAQ's FAQ list has fewer than 3 entries; *)
(* each hint carries document_type, suggestion and priority.  As stated    *)
(* this fails for an empty slot, which gets no hint.  It holds with "the   *)
(* slot is non-empty and" added to each condition.                         *)
(***************************************************************************)
C13_Original ==
    HintedResult =>
        /\ Hinted("prd") <=> ContentDict.prd.len < 3
        /\ Hinted("strategy") <=> ContentDict.strategy.len < 2
        /\ Hinted("prfaq") <=> FaqEntries(ContentDict) < 3

C13_HintConditions ==
    HintedResult =>
        /\ Hinted("prd") <=> ContentDict.prd.len \in 1..2
        /\ Hinted("strategy") <=> ContentDict.strategy.len = 1
        /\ Hinted("prfaq") <=>
              (ContentDict.prfaq.len > 0 /\ FaqEntries(ContentDict) < 3)
        /\ \A i \in 1..Len(result.enhancement_suggestions) :
              DOMAIN result.enhancement_suggestions[i] =
                  {"document_type", "suggestion", "priority"}

\* A result with all three hints: a short PRD, a one-section strategy and a
\* PRFAQ with two FAQ entries.
C13_Witness ==
    /\ HintedResult
    /\ ContentDict.prd.len = 2 /\ ContentDict.strategy.len = 1
    /\ ContentDict.prfaq.len > 0 /\ ContentDict.prfaq.faqs = FaqList(2)
    /\ Hinted("prd") /\ Hinted("strategy") /\ Hinted("prfaq")

(***************************************************************************)
(* C14: whatever the terminal processing_method of a run on a parseable    *)
(* snapshot, the result's enhancement_suggestions are the hints for the    *)
(* snapshot.  As stated this fails for the method fallback, whose result   *)
(* has no hints.  It holds for simple, self_critique and simple_fallback;  *)
(* a fallback result carries an empty list.                                *)
(***************************************************************************)
C14_Hints(c) ==
    (IF c.prd.len \in 1..2 THEN <<PrdHint>> ELSE <<>>)
    \o (IF c.strategy.len = 1 THEN <<StrategyHint>> ELSE <<>>)
    \o (IF c.prfaq.len > 0 /\ FaqEntries(c) < 3 THEN <<PrfaqHint>> ELSE <<>>)

C14_Original ==
    (Completed /\ SnapshotInput) =>
        result.enhancement_suggestions = C14_Hints(ContentDict)

C14_HintsOnEveryPath ==
    (Completed /\ SnapshotInput) =>
        result.enhancement_suggestions =
            IF result.processing_method = "fallback" THEN <<>>
            ELSE C14_Hints(ContentDict)

\* A degraded result, after a failed critique call, that carries hints.
C14_Witness ==
    /\ Completed /\ SnapshotInput
    /\ result.processing_method = "simple_fallback"
    /\ result.enhancement_suggestions = <<PrdHint, StrategyHint>>

(***************************************************************************)
(* Structured content.  A value is a scalar or a mapping from section      *)
(* names to values.  The heap holds the mappings as Python holds them:     *)
(* objects with identity, so that two places can refer to one mapping.  A  *)
(* cell is what a name or an entry of a mapping holds: a scalar, or the    *)
(* reference to a mapping on the heap.  What json.dumps writes for a cell  *)
(* is its tree: the set of its leaves, each the path of section names to a *)
(* scalar, or to an empty mapping (written 0).                             *)
(***************************************************************************)
Keys ==
    {"a", "b", "c", "vision", "approach", "business_value", "overview",
     "components", "technologies"}

Absent == [kind |-> "absent", v |-> 0]

Scalar(s) == [kind |-> "scalar", v |-> s]

Ref(id) == [kind |-> "ref", v |-> id]

\* {}
EmptyObject == [k \in Keys |-> Absent]

\* The keys of the mapping `id`.
ObjectKeys(h, id) == {k \in Keys : h[id][k].kind # "absent"}

EmptyMap == {<< <<>>, 0 >>}

Atom(s) == {<< <<>>, s >>}

IsMap(t) == t = EmptyMap \/ \A l \in t : Len(l[1]) > 0

KeysOf(t) == {l[1][1] : l \in {m \in t : Len(m[1]) > 0}}

\* t[k]
At(t, k) ==
    {<<Tail(l[1]), l[2]>> : l \in {m \in t : Len(m[1]) > 0 /\ m[1][1] = k}}

Under(k, t) == {<< <<k>> \o l[1], l[2] >> : l \in t}

\* The mapping with the entries of the function or record f.
MapOf(f) ==
    IF DOMAIN f = {} THEN EmptyMap ELSE UNION {Under(k, f[k]) : k \in DOMAIN f}

\* json.dumps of a cell.
RECURSIVE Dump(_, _)
Dump(h, cell) ==
    IF cell.kind = "scalar" THEN Atom(cell.v)
    ELSE IF ObjectKeys(h, cell.v) = {} THEN EmptyMap
    ELSE UNION {Under(k, Dump(h, h[cell.v][k])) : k \in ObjectKeys(h, cell.v)}

\* The objects of a value that is built afresh, as a literal or a parse
\* builds it: no mapping of it is shared.
RECURSIVE Load(_, _), LoadItems(_, _, _, _)
LoadItems(h, id, t, ks) ==
    IF ks = {} THEN h
    ELSE LET k == CHOOSE key \in ks : TRUE
             item == Load(h, At(t, k))
         IN LoadItems([item.heap EXCEPT ![id][k] = item.cell], id, t, ks \ {k})

Load(h, t) ==
    IF IsMap(t)
    THEN [heap |-> LoadItems(Append(h, EmptyObject), Len(h) + 1, t, KeysOf(t)),
          cell |-> Ref(Len(h) + 1)]
    ELSE [heap |-> h, cell |-> Scalar((CHOOSE l \in t : TRUE)[2])]

(***************************************************************************)
(* _merge_content(target, source): in place, on the heap.  The entries of  *)
(* source are taken one at a time; an entry is stored into target as it    *)
(* is, so a mapping stored this way is the source's own object.  The order *)
(* of the entries does not matter: each touches only its own key.          *)
(***************************************************************************)
\* Mutant: every entry of source is stored, a mapping too.
merge_overwriting(h, target, source) ==
    IF source.kind = "ref" /\ target.kind = "ref"
    THEN [h EXCEPT ![target.v] =
             [k \in Keys |-> IF h[source.v][k].kind # "absent"
                             THEN h[source.v][k] ELSE @[k]]]
    ELSE h

RECURSIVE _merge_content(_, _, _), merge_items(_, _, _, _)
merge_items(h, target, source, keys) ==
    IF keys = {} THEN h
    ELSE LET key == CHOOSE k \in keys : TRUE
             value == h[source][key]
         IN merge_items(
                IF h[target][key].kind = "ref" /\ value.kind = "ref"
                THEN _merge_content(h, h[target][key], value)
                ELSE [h EXCEPT ![target][key] = value],
                target, source, keys \ {key})

_merge_content(h, target, source) ==
    IF source.kind = "ref" /\ target.kind = "ref"
    THEN merge_items(h, target.v, source.v, ObjectKeys(h, source.v))
    ELSE h

(***************************************************************************)
(* _merge_content on its own: applied once to a target and a source that   *)
(* Init builds on the heap.                                                *)
(***************************************************************************)
MaxScalar == 2

MergeKeys == {"a", "b"}

\* The mappings over MergeKeys with values from `values`.
MapsOver(values) ==
    UNION {{MapOf(f) : f \in [S -> values]} : S \in SUBSET MergeKeys}

Scalars == {Atom(s) : s \in 1..MaxScalar}

FlatMaps == MapsOver(Scalars)

NestedMaps == MapsOver(Scalars \cup FlatMaps)

\* merge({a: {b: 1, c: 2}}, {a: {b: 9}})
ExampleTarget == MapOf([a |-> MapOf([b |-> Atom(1), c |-> Atom(2)])])

ExampleSource == MapOf([a |-> MapOf([b |-> Atom(9)])])

\* Mappings nested three deep.
DeepTarget ==
    MapOf([a |-> MapOf([b |-> MapOf([c |-> MapOf([a |-> Atom(1), b |-> Atom(2)]),
                                     a |-> Atom(3)])]),
           c |-> Atom(4)])

DeepSources ==
    {MapOf([a |-> MapOf([b |-> MapOf([c |-> MapOf([a |-> Atom(9)])])])]),
     MapOf([a |-> MapOf([b |-> MapOf([c |-> Atom(9)]), c |-> EmptyMap])]),
     MapOf([a |-> MapOf([b |-> MapOf([a |-> MapOf([a |-> Atom(9)])])])])}

MergeInputs ==
    (NestedMaps \X (NestedMaps \cup Scalars))
    \cup {<<ExampleTarget, ExampleSource>>}
    \cup ({DeepTarget} \X DeepSources)

MergeInit ==
    /\ \E input \in MergeInputs :
          LET t == Load(<<>>, input[1])
              s == Load(t.heap, input[2])
          IN /\ heap = s.heap
             /\ merge_target = t.cell
             /\ merge_source = s.cell
    /\ merged = FALSE
    /\ PipelineIdle
    /\ ExtractIdle
    /\ SyncIdle
    /\ HookIdle
    /\ AppIdle

Merge ==
    /\ ~merged
    /\ heap' = _merge_content(heap, merge_target, merge_source)
    /\ merged' = TRUE
    /\ UNCHANGED <<merge_target, merge_source, pipeline_vars, extract_vars, sync_vars,
                   hook_vars, app_vars>>

MergeNext == Merge

MergeSpec == MergeInit /\ [][MergeNext]_vars

(***************************************************************************)
(* C15: _merge_content(T, S) leaves in T, for every key of S, the          *)
(* recursive merge of the two values when both are mappings and the value  *)
(* of S otherwise, and for every key of T that S lacks the value T had; so *)
(* merge(T, {}) = T and merge({a: {b: 1, c: 2}}, {a: {b: 9}}) =            *)
(* {a: {b: 9, c: 2}}, at any nesting depth.                                *)
(***************************************************************************)
RECURSIVE C15_RecursiveMerge(_, _)
C15_RecursiveMerge(T, S) ==
    MapOf([k \in KeysOf(T) \cup KeysOf(S) |->
              IF k \notin KeysOf(S) THEN At(T, k)
              ELSE IF k \in KeysOf(T) /\ IsMap(At(T, k)) /\ IsMap(At(S, k))
                   THEN C15_RecursiveMerge(At(T, k), At(S, k))
                   ELSE At(S, k)])

C15_Merge ==
    [][(~merged /\ merged' /\ IsMap(Dump(heap, merge_source))) =>
          /\ Dump(heap', merge_target) =
                C15_RecursiveMerge(Dump(heap, merge_target),
                                   Dump(heap, merge_source))
          /\ Dump(heap, merge_source) = EmptyMap =>
                Dump(heap', merge_target) = Dump(heap, merge_target)
          /\ (/\ Dump(heap, merge_target) = ExampleTarget
              /\ Dump(heap, merge_source) = ExampleSource) =>
                Dump(heap', merge_target) =
                    MapOf([a |-> MapOf([b |-> Atom(9), c |-> Atom(2)])])]_vars

\* The example of the claim, merged, and a merge three mappings deep.
C15_Witness ==
    /\ merged
    /\ Dump(heap, merge_source) = ExampleSource
    /\ Dump(heap, merge_target) = MapOf([a |-> MapOf([b |-> Atom(9), c |-> Atom(2)])])

(***************************************************************************)
(* The connectors and SyncService.collect_all_content.  The state is what  *)
(* the connectors store: the registry of connected documents, the tickets  *)
(* of the two ticket sources and the wiki pages, whose contents live on    *)
(* the heap.  A connector may be unavailable; a read of it then raises.    *)
(* snapshot is what the step just taken returned from                      *)
(* collect_all_content.                                                    *)
(***************************************************************************)
MaxDocs == 2

MaxNewTickets == 1

MaxNewPages == 2

DocTypes == {"prd", "prfaq", "strategy"}

Connectors == {"google_docs", "jira", "linear", "confluence"}

Ticket(connector, n) == [source |-> connector, n |-> n]

\* JiraIntegration.__init__: PROJ-1 .. PROJ-5
JiraSample == [i \in 1..5 |-> Ticket("jira", i)]

\* LinearIntegration.__init__: LIN-1 .. LIN-3
LinearSample == [i \in 1..3 |-> Ticket("linear", i)]

\* ConfluenceIntegration.__init__: page1, labelled strategy, and page2.
Page1Content ==
    MapOf([vision |-> Atom(1), approach |-> Atom(2), business_value |-> Atom(3)])

Page2Content ==
    MapOf([overview |-> Atom(1), components |-> Atom(2), technologies |-> Atom(3)])

\* The contents create_page is called with: two mappings with a nested
\* mapping under the same section, and a str.
NewPageContents ==
    {MapOf([a |-> MapOf([b |-> Atom(1)])]),
     MapOf([a |-> MapOf([c |-> Atom(2)]), vision |-> Atom(8)]),
     Atom(9)}

\* The pages create_page is called for: each content labelled strategy, and
\* a page without the label.
NewPages ==
    {[content |-> c, labels |-> {"strategy"}] : c \in NewPageContents}
    \cup {[content |-> MapOf([a |-> MapOf([b |-> Atom(1)])]), labels |-> {}]}

\* ContentExtractor.extract_structure(raw_content, doc_type): the structured
\* content of the sample document of the type.
extract_structure(doc_type) ==
    CASE doc_type = "prd" -> MapOf([a |-> Atom(1), b |-> Atom(2), c |-> Atom(3)])
      [] doc_type = "prfaq" -> MapOf([a |-> Atom(4), b |-> MapOf([c |-> Atom(5)])])
      [] doc_type = "strategy" ->
            MapOf([vision |-> Atom(6), a |-> MapOf([b |-> Atom(7)])])

\* GoogleDocsIntegration.get_document_content(doc_id): the raw content read
\* is that of the document's type.
get_document_content(doc) == extract_structure(doc.type)

\* ConfluenceIntegration.extract_structured_content(page): the stored
\* object itself.
extract_structured_content(page) == page.content

\* A read of a connector.
Read(connector, value) ==
    IF unavailable = connector THEN Raise ELSE Return(value)

\* Mutant: every document goes to the prd slot.
RECURSIVE collect_docs_into_prd(_, _, _)
collect_docs_into_prd(h, content, docs) ==
    IF docs = <<>> THEN [heap |-> h, content |-> content]
    ELSE LET doc_content == Load(h, get_document_content(Head(docs)))
         IN collect_docs_into_prd(
                doc_content.heap,
                IF Dump(doc_content.heap, doc_content.cell) # EmptyMap
                THEN [content EXCEPT !["prd"] = doc_content.cell]
                ELSE content,
                Tail(docs))

\* for doc in docs: the content of each document is built afresh and,
\* unless it is empty, put in the slot of the document's type.
RECURSIVE collect_docs(_, _, _)
collect_docs(h, content, docs) ==
    IF docs = <<>> THEN [heap |-> h, content |-> content]
    ELSE LET doc_content == Load(h, get_document_content(Head(docs)))
         IN collect_docs(
                doc_content.heap,
                IF Dump(doc_content.heap, doc_content.cell) # EmptyMap
                THEN [content EXCEPT ![Head(docs).type] = doc_content.cell]
                ELSE content,
                Tail(docs))

\* Mutant: the tickets of the second source first.
tickets_linear_first(jira, linear) == linear \o jira

\* content['tickets'].extend(jira.get_tickets()), then the same of linear.
collect_tickets(jira, linear) == jira \o linear

\* Mutant: every page is merged, whatever its labels.
RECURSIVE collect_pages_unlabelled(_, _, _)
collect_pages_unlabelled(h, strategy, confluence_pages) ==
    IF confluence_pages = <<>> THEN h
    ELSE collect_pages_unlabelled(
             _merge_content(h, strategy,
                            extract_structured_content(Head(confluence_pages))),
             strategy, Tail(confluence_pages))

\* for page in confluence_pages
RECURSIVE collect_pages(_, _, _)
collect_pages(h, strategy, confluence_pages) ==
    IF confluence_pages = <<>> THEN h
    ELSE collect_pages(
             IF "strategy" \in Head(confluence_pages).labels
             THEN _merge_content(h, strategy,
                                 extract_structured_content(Head(confluence_pages)))
             ELSE h,
             strategy, Tail(confluence_pages))

\* collect_all_content: what it returns or raises, and the heap it leaves.
\* The three empty mappings of content and the documents' contents are new
\* objects, dropped on return.
collect_all_content ==
    LET content == [prd |-> Ref(Len(heap) + 1), prfaq |-> Ref(Len(heap) + 2),
                    strategy |-> Ref(Len(heap) + 3)]
        h0 == heap \o <<EmptyObject, EmptyObject, EmptyObject>>
        docs == Read("google_docs", connected_docs)
        jira == Read("jira", jira_tickets)
        linear == Read("linear", linear_tickets)
        confluence_pages == Read("confluence", pages)
    IN IF docs.raised \/ jira.raised \/ linear.raised \/ confluence_pages.raised
       THEN [outcome |-> Raise, heap |-> heap]
       ELSE LET d == collect_docs(h0, content, docs.value)
                h1 == collect_pages(d.heap, d.content.strategy,
                                    confluence_pages.value)
            IN [outcome |->
                   Return([prd |-> Dump(h1, d.content.prd),
                           prfaq |-> Dump(h1, d.content.prfaq),
                           strategy |-> Dump(h1, d.content.strategy),
                           tickets |-> collect_tickets(jira.value, linear.value)]),
                heap |-> SubSeq(h1, 1, Len(heap))]

SyncInit ==
    /\ connected_docs = <<>>
    /\ jira_tickets = JiraSample
    /\ linear_tickets = LinearSample
    /\ LET page1 == Load(<<>>, Page1Content)
           page2 == Load(page1.heap, Page2Content)
       IN /\ heap = page2.heap
          /\ pages = <<[labels |-> {"strategy"}, content |-> page1.cell],
                       [labels |-> {"technical", "architecture"},
                        content |-> page2.cell]>>
    /\ unavailable \in {"none"} \cup Connectors
    /\ snapshot = NoOutcome
    /\ PipelineIdle
    /\ ExtractIdle
    /\ MergeIdle
    /\ HookIdle
    /\ AppIdle

\* GoogleDocsIntegration.connect_document
ConnectDocument ==
    /\ Len(connected_docs) < MaxDocs
    /\ \E doc_type \in DocTypes :
          connected_docs' = Append(connected_docs, [type |-> doc_type])
    /\ snapshot' = NoOutcome
    /\ UNCHANGED <<jira_tickets, linear_tickets, pages, unavailable, heap>>
    /\ UNCHANGED <<pipeline_vars, extract_vars, merge_vars, hook_vars, app_vars>>

\* JiraIntegration.create_ticket
JiraCreateTicket ==
    /\ Len(jira_tickets) < Len(JiraSample) + MaxNewTickets
    /\ jira_tickets' = Append(jira_tickets, Ticket("jira", Len(jira_tickets) + 1))
    /\ snapshot' = NoOutcome
    /\ UNCHANGED <<connected_docs, linear_tickets, pages, unavailable, heap>>
    /\ UNCHANGED <<pipeline_vars, extract_vars, merge_vars, hook_vars, app_vars>>

\* LinearIntegration.create_ticket
LinearCreateTicket ==
    /\ Len(linear_tickets) < Len(LinearSample) + MaxNewTickets
    /\ linear_tickets' =
          Append(linear_tickets, Ticket("linear", Len(linear_tickets) + 1))
    /\ snapshot' = NoOutcome
    /\ UNCHANGED <<connected_docs, jira_tickets, pages, unavailable, heap>>
    /\ UNCHANGED <<pipeline_vars, extract_vars, merge_vars, hook_vars, app_vars>>

\* ConfluenceIntegration.create_page
CreatePage ==
    /\ Len(pages) < 2 + MaxNewPages
    /\ \E page \in NewPages :
          LET stored == Load(heap, page.content)
          IN /\ heap' = stored.heap
             /\ pages' = Append(pages, [labels |-> page.labels,
                                        content |-> stored.cell])
    /\ snapshot' = NoOutcome
    /\ UNCHANGED <<connected_docs, jira_tickets, linear_tickets, unavailable>>
    /\ UNCHANGED <<pipeline_vars, extract_vars, merge_vars, hook_vars, app_vars>>

\* SyncService.collect_all_content
CollectAllContent ==
    /\ snapshot' = collect_all_content.outcome
    /\ heap' = collect_all_content.heap
    /\ UNCHANGED <<connected_docs, jira_tickets, linear_tickets, pages, unavailable>>
    /\ UNCHANGED <<pipeline_vars, extract_vars, merge_vars, hook_vars, app_vars>>

SyncNext ==
    \/ ConnectDocument
    \/ JiraCreateTicket
    \/ LinearCreateTicket
    \/ CreatePage
    \/ CollectAllContent

SyncSpec == SyncInit /\ [][SyncNext]_vars

\* collect_all_content returned a snapshot.
Collected == snapshot # NoOutcome /\ ~snapshot.raised

\* The documents of a type, by their place in the registry.
DocsOfType(doc_type) ==
    {i \in 1..Len(connected_docs) : connected_docs[i].type = doc_type}

\* What the document source alone gives a slot: the content of the last
\* connected document of the type, or an empty mapping.
LastDocContent(doc_type) ==
    IF DocsOfType(doc_type) = {} THEN EmptyMap
    ELSE get_document_content(connected_docs[Max(DocsOfType(doc_type))])

(***************************************************************************)
(* C16: the tickets of the snapshot are the tickets of the first ticket    *)
(* source followed by those of the second, each in its own order; their    *)
(* number is the sum of the two.                                           *)
(***************************************************************************)
C16_TicketsConcatenated ==
    Collected =>
        /\ Len(snapshot.value.tickets) = Len(jira_tickets) + Len(linear_tickets)
        /\ \A i \in 1..Len(jira_tickets) :
              snapshot.value.tickets[i] = jira_tickets[i]
        /\ \A i \in 1..Len(linear_tickets) :
              snapshot.value.tickets[Len(jira_tickets) + i] = linear_tickets[i]

\* A snapshot with a ticket created in each source after the samples.
C16_Witness ==
    /\ Collected
    /\ Len(jira_tickets) = 6 /\ Len(linear_tickets) = 4
    /\ snapshot.value.tickets[6] = Ticket("jira", 6)
    /\ snapshot.value.tickets[10] = Ticket("linear", 4)

(***************************************************************************)
(* C17: an error of one connector during collect_all_content does not      *)
(* abort the aggregation: a snapshot is returned in which that source      *)
(* contributes nothing and the other sources are present.                  *)
(***************************************************************************)
C17_ErrorDoesNotAbort ==
    (snapshot # NoOutcome /\ unavailable # "none") =>
        /\ ~snapshot.raised
        /\ snapshot.value.tickets =
              (IF unavailable = "jira" THEN <<>> ELSE jira_tickets)
              \o (IF unavailable = "linear" THEN <<>> ELSE linear_tickets)
        /\ \A doc_type \in {"prd", "prfaq"} :
              snapshot.value[doc_type] =
                  IF unavailable = "google_docs" THEN EmptyMap
                  ELSE LastDocContent(doc_type)
        /\ unavailable = "confluence" =>
              snapshot.value.strategy = LastDocContent("strategy")

(***************************************************************************)
(* C18: collect_all_content has no side effect on the connectors: over     *)
(* every call the registry of connected documents, the tickets and the     *)
(* pages, nested page content included, stay what they were.               *)
(***************************************************************************)
\* What the connectors store, page contents by value.
Stored ==
    <<connected_docs, jira_tickets, linear_tickets,
      [i \in 1..Len(pages) |->
          [labels |-> pages[i].labels, content |-> Dump(heap, pages[i].content)]]>>

C18_NoSideEffects == [][snapshot' # NoOutcome => Stored' = Stored]_vars

(***************************************************************************)
(* C19: with several connected documents of one type, the slot of the type *)
(* holds the content of the last one in connection order, whole: the       *)
(* content of an earlier one is replaced, not merged.  For the strategy    *)
(* slot this is said of the sections that no wiki page supplies.           *)
(***************************************************************************)
\* The sections that the strategy pages supply.
PageKeys ==
    UNION {KeysOf(Dump(heap, pages[i].content)) :
              i \in {j \in 1..Len(pages) : "strategy" \in pages[j].labels}}

RECURSIVE C20_Merged(_, _)
C20_Merged(slot, ps) ==
    IF ps = <<>> THEN slot
    ELSE LET page == Dump(heap, Head(ps).content)
         IN C20_Merged(IF "strategy" \in Head(ps).labels /\ IsMap(page)
                       THEN C15_RecursiveMerge(slot, page) ELSE slot,
                       Tail(ps))

C20_WikiIntoStrategyOnly ==
    [][(snapshot' # NoOutcome /\ ~snapshot'.raised) =>
          /\ snapshot'.value.strategy =
                C20_Merged(LastDocContent("strategy"), pages)
          /\ snapshot'.value.prd = LastDocContent("prd")
          /\ snapshot'.value.prfaq = LastDocContent("prfaq")
          /\ snapshot'.value.tickets = jira_tickets \o linear_tickets]_vars

\* A strategy document and, after the sample pages, a page labelled
\* strategy and one without the label: the page's vision overrides that of
\* page1, the document's nested section is merged with the page's, and the
\* sections of the unlabelled pages are absent.
C20_Witness ==
    /\ Collected
    /\ DocsOfType("strategy") # {}
    /\ Len(pages) = 4
    /\ "strategy" \in pages[3].labels /\ pages[4].labels = {}
    /\ snapshot.value.strategy =
          MapOf([vision |-> Atom(8), approach |-> Atom(2),
                 business_value |-> Atom(3),
                 a |-> MapOf([b |-> Atom(7), c |-> Atom(2)])])

(***************************************************************************)
(* C28: in every result of analyze_alignment_with_critique the pair        *)
(* (processing_method, api_calls_used) is one of (simple, 1),              *)
(* (self_critique, 3), (simple_fallback, 2), (simple_fallback, 3) and      *)
(* (fallback, 0), and the result has process_details exactly when its      *)
(* processing_method is self_critique.                                     *)
(***************************************************************************)
C28_MethodAndCalls ==
    Completed =>
        /\ <<result.processing_method, result.api_calls_used>> \in
              {<<"simple", 1>>, <<"self_critique", 3>>, <<"simple_fallback", 2>>,
               <<"simple_fallback", 3>>, <<"fallback", 0>>}
        /\ "process_details" \in DOMAIN result
              <=> result.processing_method = "self_critique"

\* A degraded result after two calls, without process_details.
C28_Witness ==
    /\ Completed
    /\ result.processing_method = "simple_fallback" /\ result.api_calls_used = 2
    /\ "process_details" \notin DOMAIN result

(***************************************************************************)
(* Update notifications.  SyncService.handle_*_update takes the payload of *)
(* a notification of one source and returns a ChangeSet, or None.  The     *)
(* registry and the pages start as constructed; documents are connected    *)
(* and pages created between notifications.                                *)
(***************************************************************************)

\* Python's None as a returned ChangeSet.
None == [none |-> TRUE]

\* {bucket: {'added': [...], 'modified': [...], 'removed': [...]}}; the three
\* lists by the names they hold.
ChangeSet(bucket, added, modified, removed) ==
    [bucket |-> bucket, added |-> added, modified |-> modified, removed |-> removed]

\* An identifier that is missing, None or ''.
NoId == 0

\* The issue a ticket notification is about.
IssueId == 7

\* A payload: its source, its event field, and its identifier, held
\* directly (documentId) or in a member ('issue', 'data', 'page') that is
\* absent, is not a mapping, or is a mapping with or without the identifier.
WebhookPayload(source, event, container, id) ==
    [source |-> source, event |-> event, container |-> container, id |-> id]

\* The events of a source that process_webhook recognises, one it does not,
\* and a payload without the event field.
Events(source) ==
    CASE source = "jira" ->
            {"jira:issue_created", "jira:issue_updated", "jira:issue_deleted",
             "jira:worklog_updated", "absent"}
      [] source = "linear" -> {"create", "update", "remove", "archive", "absent"}
      [] source = "confluence" ->
            {"page_created", "page_updated", "page_removed", "page_viewed", "absent"}

PayloadsOf(source, ids) ==
    {WebhookPayload(source, e, "dict", id) : e \in Events(source), id \in ids \cup {NoId}}
    \cup {WebhookPayload(source, e, c, NoId) :
             e \in Events(source), c \in {"absent", "notdict"}}

\* payload.get(member, {}).get(field): None of an absent member, an
\* AttributeError of a member that is not a mapping.
get_member_id(payload) ==
    CASE payload.container = "absent" -> Return(NoId)
      [] payload.container = "notdict" -> Raise
      [] payload.container = "dict" -> Return(payload.id)

\* A handler without its except clause.
except_propagate(outcome) == outcome

\* except Exception: return None
except_return_none(outcome) == IF outcome.raised THEN Return(None) ELSE outcome

\* An event mapping that reports an update as an addition.
ticket_changes_update_as_added(event, id, created, updated, deleted) ==
    CASE event = created -> ChangeSet("tickets", {id}, {}, {})
      [] event = updated -> ChangeSet("tickets", {id}, {}, {})
      [] event = deleted -> ChangeSet("tickets", {}, {}, {id})
      [] OTHER -> None

\* The if/elif chain of the two ticket sources' process_webhook.
ticket_changes(event, id, created, updated, deleted) ==
    CASE event = created -> ChangeSet("tickets", {id}, {}, {})
      [] event = updated -> ChangeSet("tickets", {}, {id}, {})
      [] event = deleted -> ChangeSet("tickets", {}, {}, {id})
      [] OTHER -> None

\* JiraIntegration.process_webhook
jira_process_webhook(payload) ==
    except_return_none(
        LET issue_key == get_member_id(payload)
        IN IF issue_key.raised THEN Raise
           ELSE IF issue_key.value = NoId THEN Return(None)
           ELSE Return(ticket_changes(payload.event, issue_key.value,
                                      "jira:issue_created", "jira:issue_updated",
                                      "jira:issue_deleted")))

\* LinearIntegration.process_webhook
linear_process_webhook(payload) ==
    except_return_none(
        LET issue_id == get_member_id(payload)
        IN IF issue_id.raised THEN Raise
           ELSE IF issue_id.value = NoId THEN Return(None)
           ELSE Return(ticket_changes(payload.event, issue_id.value,
                                      "create", "update", "remove")))

\* ConfluenceIntegration.process_webhook; list(page['content'].keys()) is an
\* AttributeError when the content is a str.
confluence_process_webhook(payload) ==
    except_return_none(
        LET page_id == get_member_id(payload)
        IN IF page_id.raised THEN Raise
           ELSE IF page_id.value = NoId THEN Return(None)
           ELSE IF page_id.value \notin 1..Len(pages) THEN Return(None)
           ELSE LET page == pages[page_id.value]
                    doc_type == IF "strategy" \in page.labels THEN "strategy"
                                ELSE "generic"
                    content == Dump(heap, page.content)
                    keys == KeysOf(content)
                IN IF payload.event \notin {"page_created", "page_updated", "page_removed"}
                   THEN Return(None)
                   ELSE IF ~IsMap(content) THEN Raise
                   ELSE CASE payload.event = "page_created" ->
                                Return(ChangeSet(doc_type, keys, {}, {}))
                          [] payload.event = "page_updated" ->
                                Return(ChangeSet(doc_type, {}, keys, {}))
                          [] payload.event = "page_removed" ->
                                Return(ChangeSet(doc_type, {}, {}, keys)))

\* GoogleDocsIntegration.get_document_type: None of an unknown document.
get_document_type(doc_id) ==
    IF doc_id \in 1..Len(connected_docs) THEN connected_docs[doc_id].type ELSE "None"

\* The two loops of handle_docs_update over the sections of the current and
\* of the previous content.
diff_sections(previous_content, updated_content) ==
    [added |-> KeysOf(updated_content) \ KeysOf(previous_content),
     modified |-> {section \in KeysOf(updated_content) \cap KeysOf(previous_content) :
                      At(updated_content, section) # At(previous_content, section)},
     removed |-> KeysOf(previous_content) \ KeysOf(updated_content)]

\* changes if any(len(c) > 0 ...) else None
changes_or_none(doc_type, d) ==
    IF d.added # {} \/ d.modified # {} \/ d.removed # {}
    THEN ChangeSet(doc_type, d.added, d.modified, d.removed)
    ELSE None

\* SyncService.handle_docs_update
handle_docs_update(data) ==
    LET doc_id == data.id
    IN IF doc_id = NoId THEN Return(None)
       ELSE IF get_document_type(doc_id) = "None" THEN Return(None)
       ELSE LET updated_content == get_document_content(connected_docs[doc_id])
                previous_content == EmptyMap
            IN Return(changes_or_none(get_document_type(doc_id),
                                      diff_sections(previous_content, updated_content)))

\* The pages create_page is called for between notifications: one without
\* sections, one with a str for content, one with sections.
HookPages ==
    {[content |-> EmptyMap, labels |-> {"strategy"}],
     [content |-> Atom(9), labels |-> {"strategy"}],
     [content |-> MapOf([a |-> MapOf([b |-> Atom(1)])]), labels |-> {}]}

\* Documents connected and pages created between notifications.
MaxHookDocs == 1

MaxHookPages == 1

HookInit ==
    /\ connected_docs = <<>>
    /\ jira_tickets = JiraSample
    /\ linear_tickets = LinearSample
    /\ LET page1 == Load(<<>>, Page1Content)
           page2 == Load(page1.heap, Page2Content)
       IN /\ heap = page2.heap
          /\ pages = <<[labels |-> {"strategy"}, content |-> page1.cell],
                       [labels |-> {"technical", "architecture"},
                        content |-> page2.cell]>>
    /\ unavailable = "none"
    /\ snapshot = NoOutcome
    /\ HookIdle
    /\ AppIdle
    /\ PipelineIdle
    /\ ExtractIdle
    /\ MergeIdle

\* GoogleDocsIntegration.connect_document, between notifications
HookConnectDocument ==
    /\ Len(connected_docs) < MaxHookDocs
    /\ \E doc_type \in DocTypes :
          connected_docs' = Append(connected_docs, [type |-> doc_type])
    /\ hook_payload' = NoOutcome
    /\ changes' = NoOutcome
    /\ UNCHANGED <<jira_tickets, linear_tickets, pages, unavailable, snapshot, heap,
                   doc_versions>>
    /\ UNCHANGED <<pipeline_vars, extract_vars, merge_vars, app_vars>>

\* ConfluenceIntegration.create_page, between notifications
HookCreatePage ==
    /\ Len(pages) < 2 + MaxHookPages
    /\ \E page \in HookPages :
          LET stored == Load(heap, page.content)
          IN /\ heap' = stored.heap
             /\ pages' = Append(pages, [labels |-> page.labels,
                                        content |-> stored.cell])
    /\ hook_payload' = NoOutcome
    /\ changes' = NoOutcome
    /\ UNCHANGED <<connected_docs, jira_tickets, linear_tickets, unavailable, snapshot,
                   doc_versions>>
    /\ UNCHANGED <<pipeline_vars, extract_vars, merge_vars, app_vars>>

\* SyncService.handle_jira_update
HandleJiraUpdate ==
    /\ \E data \in PayloadsOf("jira", {IssueId}) :
          /\ hook_payload' = data
          /\ changes' = jira_process_webhook(data)
    /\ UNCHANGED <<sync_vars, heap, doc_versions>>
    /\ UNCHANGED <<pipeline_vars, extract_vars, merge_vars, app_vars>>

\* SyncService.handle_linear_update
HandleLinearUpdate ==
    /\ \E data \in PayloadsOf("linear", {IssueId}) :
          /\ hook_payload' = data
          /\ changes' = linear_process_webhook(data)
    /\ UNCHANGED <<sync_vars, heap, doc_versions>>
    /\ UNCHANGED <<pipeline_vars, extract_vars, merge_vars, app_vars>>

\* SyncService.handle_confluence_update
HandleConfluenceUpdate ==
    /\ \E data \in PayloadsOf("confluence", 1..(Len(pages) + 1)) :
          /\ hook_payload' = data
          /\ changes' = confluence_process_webhook(data)
    /\ UNCHANGED <<sync_vars, heap, doc_versions>>
    /\ UNCHANGED <<pipeline_vars, extract_vars, merge_vars, app_vars>>

\* SyncService.handle_docs_update; the content a document has at a
\* notification becomes its previous version for the next one.
HandleDocsUpdate ==
    /\ \E doc_id \in 0..(Len(connected_docs) + 1) :
          LET data == WebhookPayload("google_docs", "absent", "dict", doc_id)
          IN /\ hook_payload' = data
             /\ changes' = handle_docs_update(data)
             /\ doc_versions' =
                   IF doc_id \in 1..Len(connected_docs)
                   THEN [i \in DOMAIN doc_versions \cup {doc_id} |->
                            IF i = doc_id
                            THEN get_document_content(connected_docs[doc_id])
                            ELSE doc_versions[i]]
                   ELSE doc_versions
    /\ UNCHANGED <<sync_vars, heap>>
    /\ UNCHANGED <<pipeline_vars, extract_vars, merge_vars, app_vars>>

HookNext ==
    \/ HookConnectDocument
    \/ HookCreatePage
    \/ HandleJiraUpdate
    \/ HandleLinearUpdate
    \/ HandleConfluenceUpdate
    \/ HandleDocsUpdate

HookSpec == HookInit /\ [][HookNext]_vars

\* A notification of the source was just handled.
Handled(source) == hook_payload # NoOutcome /\ hook_payload.source = source

\* The handler returned a ChangeSet.
ReturnedChanges == changes # NoOutcome /\ ~changes.raised /\ changes.value # None

\* The payload just handled lacks its identifier.
LacksId == hook_payload.container # "dict" \/ hook_payload.id = NoId

(***************************************************************************)
(* C21: for each of the four sources, the handler returns None, and does   *)
(* not raise, for a payload that lacks the identifier of its document or   *)
(* ticket.                                                                 *)
(***************************************************************************)
C21_NoIdentifierGivesNone ==
    (hook_payload # NoOutcome /\ LacksId) => changes = Return(None)

C21_Witness ==
    /\ Handled("confluence")
    /\ hook_payload.container = "notdict"
    /\ hook_payload.event = "page_updated"
    /\ changes = Return(None)

\* The version of a document the diff of a notification is taken against,
\* and the ChangeSet the diff against it gives.
PreviousVersion(doc_id) ==
    IF doc_id \in DOMAIN doc_versions THEN doc_versions[doc_id] ELSE EmptyMap

DiffAgainstPrevious(doc_id) ==
    changes_or_none(connected_docs[doc_id].type,
                    diff_sections(PreviousVersion(doc_id),
                                  get_document_content(connected_docs[doc_id])))

(***************************************************************************)
(* C22: the ChangeSet of a document notification is the diff of the        *)
(* document's content against its previous version: all current sections   *)
(* added when there is none, and otherwise only the sections that were     *)
(* added, modified or removed since.                                       *)
(***************************************************************************)
C22_DiffAgainstPrevious ==
    [][(/\ hook_payload' # NoOutcome
        /\ hook_payload'.source = "google_docs"
        /\ hook_payload'.id \in 1..Len(connected_docs))
       => changes' = Return(DiffAgainstPrevious(hook_payload'.id))]_vars

\* The names a returned ChangeSet holds.
ChangedNames == changes.value.added \cup changes.value.modified \cup changes.value.removed

(***************************************************************************)
(* C23: a ChangeSet returned by a handler holds at least one name in its   *)
(* added, modified or removed list; a ChangeSet without names is returned  *)
(* as None.                                                                *)
(***************************************************************************)
C23_NeverEmpty == ReturnedChanges => ChangedNames # {}

\* The list of a ticket ChangeSet an event fills.
ListOfEvent(event) ==
    CASE event \in {"jira:issue_created", "create"} -> "added"
      [] event \in {"jira:issue_updated", "update"} -> "modified"
      [] event \in {"jira:issue_deleted", "remove"} -> "removed"
      [] OTHER -> "none"

(***************************************************************************)
(* C29: for a ticket notification with an issue identifier, a recognised   *)
(* event gives a ChangeSet with the single bucket tickets and the          *)
(* identifier in exactly the list of the event (created: added, updated:   *)
(* modified, deleted or removed: removed), the two other lists empty; any  *)
(* other event gives None.                                                 *)
(***************************************************************************)
C29_TicketEvent ==
    ((Handled("jira") \/ Handled("linear")) /\ ~LacksId) =>
        LET list == ListOfEvent(hook_payload.event)
        IN /\ ~changes.raised
           /\ list = "none" => changes.value = None
           /\ list # "none" =>
                 /\ changes.value # None
                 /\ changes.value.bucket = "tickets"
                 /\ changes.value.added =
                       (IF list = "added" THEN {hook_payload.id} ELSE {})
                 /\ changes.value.modified =
                       (IF list = "modified" THEN {hook_payload.id} ELSE {})
                 /\ changes.value.removed =
                       (IF list = "removed" THEN {hook_payload.id} ELSE {})

C29_Witness ==
    /\ Handled("jira")
    /\ hook_payload.event = "jira:issue_updated"
    /\ ReturnedChanges
    /\ changes.value.modified = {IssueId}

(***************************************************************************)
(* The request handlers of main.py.  A request collects the snapshot and   *)
(* analyses it within its own thread; it then reads the latest Project row *)
(* and commits its writes, and the requests of two threads interleave at   *)
(* these two accesses to the database.                                     *)
(***************************************************************************)

\* The snapshots sync_service.collect_all_content() gives the requests, as
\* JSON text: of one non-empty slot, of two with fewer than MinSections
\* sections in total, and of two with more.
OneSlot ==
    [prd |-> Dict(2), prfaq |-> Dict(0), strategy |-> Dict(0), tickets |-> List(0)]

TwoSlotsFew ==
    [prd |-> Dict(1), prfaq |-> Dict(0), strategy |-> Dict(0), tickets |-> List(1)]

TwoSlotsMany ==
    [prd |-> Dict(3), prfaq |-> Dict(0), strategy |-> Dict(0), tickets |-> List(2)]

\* What collect_all_content() returns to a request: one of the snapshots,
\* or the error of a connector.
Collects(snapshots) ==
    {Return([json |-> "object", value |-> c]) : c \in snapshots} \cup {Raise}

\* What the generation calls of one analysis return, in call order: every
\* call answers, or none does.
AppResponses ==
    {[i \in 1..3 |-> Message(<<"{", "k", "}">>)], [i \in 1..3 |-> NoneResponse]}

\* What a handler of sync_service returns to webhook() for a source.
HandlerReturns(source) ==
    CASE source = "jira" -> {None, ChangeSet("tickets", {IssueId}, {}, {})}
      [] source = "confluence" -> {None, ChangeSet("strategy", {}, {}, {})}
      [] OTHER -> {None}

\* analyze_alignment_with_critique(project_content), its generation calls
\* answered by `responses` in turn: the result and the number of calls made.
analyze_alignment_with_critique(text, responses) ==
    LET content_dict == json_loads(text).value.items
        entry == Catch(analyze_entry(text))
        simple == Catch(Done(simple_result(content_dict, responses[1])))
        generated == Catch(CatchSelfCritique(after_generate(content_dict, responses[1])))
        initial == content_text(responses[1]).value
        critiqued == Catch(CatchSelfCritique(
                         after_critique(content_dict, initial, responses[2])))
        critique == content_text(responses[2]).value
        refined == Catch(CatchSelfCritique(
                       after_refine(content_dict, initial, critique, responses[3])))
    IN IF entry.next = "done" THEN [outcome |-> entry.outcome, calls |-> 0]
       ELSE IF entry.next = "simple" THEN [outcome |-> simple.outcome, calls |-> 1]
       ELSE IF generated.next = "done" THEN [outcome |-> generated.outcome, calls |-> 1]
       ELSE IF critiqued.next = "done" THEN [outcome |-> critiqued.outcome, calls |-> 2]
       ELSE [outcome |-> refined.outcome, calls |-> 3]

\* A count of every slot of the snapshot, empty or not.
connected_types_of_all(content_dict) == Cardinality(DOMAIN content_dict)

\* manual_update: the number of slots that hold a non-empty mapping or list.
connected_types(content_dict) ==
    Cardinality({doc_type \in DOMAIN content_dict :
                    /\ Truthy(content_dict[doc_type])
                    /\ content_dict[doc_type].type \in {"dict", "list"}})

\* Project.query.order_by(Project.timestamp.desc()).first(): the row read,
\* 0 for None.
latest_project ==
    IF projects = <<>> THEN 0
    ELSE CHOOSE i \in 1..Len(projects) :
            \A j \in 1..Len(projects) : projects[j].timestamp <= projects[i].timestamp

\* The project saved: the row read is updated, or a row is added.
save_project(row, content) ==
    IF row # 0
    THEN [projects EXCEPT ![row] = [content |-> content, timestamp |-> clock]]
    ELSE Append(projects, [content |-> content, timestamp |-> clock])

\* A commit that keeps the last analysis only.
replace_alignment(alignment_results) ==
    <<[suggestions |-> alignment_results, timestamp |-> clock]>>

\* db.session.add(Alignment(...))
add_alignment(alignment_results) ==
    Append(alignments, [suggestions |-> alignment_results, timestamp |-> clock])

\* Requests take the slots in the order they arrive.
Arrives(r) == runs[r] = NoRun /\ \A q \in 1..(r - 1) : runs[q] # NoRun

\* The snapshot collected and analysed.
Analysed(run, collected, responses) ==
    LET analysis == analyze_alignment_with_critique(collected.value, responses)
    IN [run EXCEPT
           !.content = collected.value,
           !.steps = @ \o <<"aggregate", "analyze">>,
           !.method = IF selected_method(collected.value).raised THEN "none"
                      ELSE selected_method(collected.value).value,
           !.calls = analysis.calls,
           !.result = IF analysis.outcome.raised THEN NoResult
                      ELSE analysis.outcome.value,
           !.pc = IF analysis.outcome.raised THEN "error" ELSE "query"]

\* connect_document up to the query of the Project table.
connect_document(r) ==
    /\ Arrives(r)
    /\ \E success \in BOOLEAN, collected \in Collects({TwoSlotsMany}) :
          LET run == [NoRun EXCEPT !.kind = "connect"]
          IN runs' = [runs EXCEPT ![r] =
                 IF ~success THEN [run EXCEPT !.pc = "failed"]
                 ELSE IF collected.raised
                 THEN [run EXCEPT !.steps = <<"aggregate">>, !.pc = "error"]
                 ELSE [run EXCEPT !.steps = <<"aggregate">>,
                                  !.content = collected.value, !.pc = "query"]]
    /\ UNCHANGED <<projects, alignments, clock>>
    /\ UNCHANGED <<pipeline_vars, extract_vars, heap, merge_vars, sync_vars, hook_vars>>

\* manual_update up to the query of the Project table.
manual_update(r) ==
    /\ Arrives(r)
    /\ \E collected \in Collects({OneSlot, TwoSlotsFew, TwoSlotsMany}),
          responses \in AppResponses :
          LET run == [NoRun EXCEPT !.kind = "manual"]
          IN runs' = [runs EXCEPT ![r] =
                 IF collected.raised
                 THEN [run EXCEPT !.steps = <<"aggregate">>, !.pc = "error"]
                 ELSE IF connected_types(json_loads(collected.value).value.items) < 2
                 THEN [run EXCEPT !.steps = <<"aggregate">>,
                                  !.content = collected.value, !.pc = "done"]
                 ELSE Analysed(run, collected, responses)]
    /\ UNCHANGED <<projects, alignments, clock>>
    /\ UNCHANGED <<pipeline_vars, extract_vars, heap, merge_vars, sync_vars, hook_vars>>

\* webhook up to the query of the Project table.
webhook(r) ==
    /\ Arrives(r)
    /\ \E source \in {"jira", "confluence", "github"} :
          \E returned \in HandlerReturns(source),
             collected \in Collects({TwoSlotsFew, TwoSlotsMany}),
             responses \in AppResponses :
              LET run == [NoRun EXCEPT !.kind = "webhook"]
                  detected == [run EXCEPT !.changes = returned]
              IN runs' = [runs EXCEPT ![r] =
                     IF source \notin Connectors THEN [run EXCEPT !.pc = "failed"]
                     ELSE IF returned = None THEN [detected EXCEPT !.pc = "done"]
                     ELSE IF collected.raised
                     THEN [detected EXCEPT !.steps = <<"aggregate">>, !.pc = "error"]
                     ELSE Analysed(detected, collected, responses)]
    /\ UNCHANGED <<projects, alignments, clock>>
    /\ UNCHANGED <<pipeline_vars, extract_vars, heap, merge_vars, sync_vars, hook_vars>>

\* project = Project.query.order_by(Project.timestamp.desc()).first()
QueryProject(r) ==
    /\ runs[r].pc = "query"
    /\ runs' = [runs EXCEPT ![r] = [@ EXCEPT !.project = latest_project,
                                             !.pc = "commit"]]
    /\ UNCHANGED <<projects, alignments, clock>>
    /\ UNCHANGED <<pipeline_vars, extract_vars, heap, merge_vars, sync_vars, hook_vars>>

\* The project saved, the Alignment row added by manual_update and webhook,
\* and db.session.commit().
Commit(r) ==
    /\ runs[r].pc = "commit"
    /\ projects' = save_project(runs[r].project, runs[r].content)
    /\ alignments' = IF runs[r].kind = "connect" THEN alignments
                     ELSE add_alignment(runs[r].result)
    /\ clock' = clock + 1
    /\ runs' = [runs EXCEPT ![r] =
                   [@ EXCEPT !.steps = @ \o (IF runs[r].kind = "connect" THEN <<"save">>
                                             ELSE <<"save", "append">>),
                             !.pc = "done"]]
    /\ UNCHANGED <<pipeline_vars, extract_vars, heap, merge_vars, sync_vars, hook_vars>>

AppInit ==
    /\ AppIdle
    /\ PipelineIdle
    /\ ExtractIdle
    /\ heap = <<>>
    /\ MergeIdle
    /\ SyncIdle
    /\ HookIdle

AppNext ==
    \E r \in Requests :
        \/ connect_document(r)
        \/ manual_update(r)
        \/ webhook(r)
        \/ QueryProject(r)
        \/ Commit(r)

AppSpec == AppInit /\ [][AppNext]_vars

Range(seq) == {seq[i] : i \in DOMAIN seq}

\* The requests that are over, and those that went through to the commit.
Over(r) == runs[r].pc \in {"done", "error", "failed"}

Committed(r) == runs[r].pc = "done" /\ "save" \in Range(runs[r].steps)

\* A ChangeSet with a name in one of its lists.
NonEmptyChanges(c) ==
    c # NoOutcome /\ c # None /\ c.added \cup c.modified \cup c.removed # {}

IsPipelineStep(step) == step \in {"aggregate", "analyze", "append"}

\* The snapshot rebuilt, analysed and the analysis appended, in this order.
Reanalysed(r) ==
    SelectSeq(runs[r].steps, IsPipelineStep) = <<"aggregate", "analyze", "append">>

(***************************************************************************)
(* C24: a webhook request re-analyses exactly when the ChangeSet of its    *)
(* notification is non-empty: without one it rebuilds no snapshot, makes   *)
(* no generation call and writes nothing; with one it aggregates, analyses *)
(* and appends in this order, the snapshot it saves being the one it       *)
(* analysed.                                                               *)
(***************************************************************************)
C24_ReanalysisIffNonEmpty ==
    \A r \in Requests :
        (runs[r].kind = "webhook" /\ Over(r) /\ runs[r].pc # "failed") =>
            IF NonEmptyChanges(runs[r].changes)
            THEN Reanalysed(r)
            ELSE runs[r].steps = <<>> /\ runs[r].calls = 0

(***************************************************************************)
(* C25: a connect request that succeeds rebuilds the snapshot, analyses it *)
(* and appends the analysis.                                               *)
(***************************************************************************)
C25_ConnectAnalyses ==
    \A r \in Requests : (runs[r].kind = "connect" /\ Committed(r)) => Reanalysed(r)

(***************************************************************************)
(* C26: the store only grows: a step never changes or removes a Project    *)
(* row or an Alignment row already stored, and it stores a snapshot        *)
(* together with its analysis, as a new pair of rows.                      *)
(***************************************************************************)
C26_Additive ==
    [][/\ \A i \in 1..Len(projects) : i <= Len(projects') /\ projects'[i] = projects[i]
       /\ \A i \in 1..Len(alignments) :
             i <= Len(alignments') /\ alignments'[i] = alignments[i]
       /\ Len(projects') - Len(projects) = Len(alignments') - Len(alignments)]_vars

\* The requests whose analysis was committed.
Appended == {r \in Requests : runs[r].pc = "done" /\ "append" \in Range(runs[r].steps)}

(***************************************************************************)
(* C27: however the requests interleave, when two webhook requests that    *)
(* each detected a non-empty ChangeSet are both complete, the Alignment    *)
(* table holds a row for each: there are as many rows as committed         *)
(* analyses, and the result of each request is in one of them.             *)
(***************************************************************************)
C27_OneRecordPerRun ==
    /\ Len(alignments) = Cardinality(Appended)
    /\ \A r \in Appended :
          \E i \in 1..Len(alignments) : alignments[i].suggestions = runs[r].result

C27_Witness ==
    /\ \A r \in {1, 2} :
          /\ runs[r].kind = "webhook"
          /\ NonEmptyChanges(runs[r].changes)
          /\ runs[r].pc = "done"
          /\ runs[r].project = 0
    /\ runs[1].result # runs[2].result
    /\ Len(alignments) = 2

\* The slots of a snapshot that are not empty, and its sections in total.
SlotsOf(text) == Cardinality({k \in Slots : text.value[k].len > 0})

SectionsOf(text) ==
    text.value.prd.len + text.value.prfaq.len + text.value.strategy.len
        + text.value.tickets.len

\* The manual request of slot r collected a snapshot.
ManualCollected(r) ==
    runs[r].kind = "manual" /\ runs[r].pc # "error"

(***************************************************************************)
(* C30: a manual update analyses only a snapshot with at least two         *)
(* non-empty slots; with fewer it makes no generation call and changes     *)
(* neither the stored snapshot nor the analysis history.  The simple       *)
(* strategy is therefore chosen on this path only for a snapshot of fewer  *)
(* than five sections.                                                     *)
(***************************************************************************)
C30_ManualNeedsTwoSlots ==
    /\ [](\A r \in Requests :
            ManualCollected(r) =>
                /\ "analyze" \in Range(runs[r].steps) <=> SlotsOf(runs[r].content) >= 2
                /\ SlotsOf(runs[r].content) < 2 =>
                      /\ runs[r].calls = 0
                      /\ runs[r].pc = "done"
                      /\ runs[r].steps = <<"aggregate">>
                /\ runs[r].method = "simple" => SectionsOf(runs[r].content) < 5)
    /\ [][\A r \in Requests :
            (/\ runs'[r] # runs[r]
             /\ runs'[r].kind = "manual" /\ runs'[r].pc # "error"
             /\ SlotsOf(runs'[r].content) < 2)
                => UNCHANGED <<projects, alignments>>]_vars

C30_Witness ==
    /\ runs[1].kind = "manual" /\ runs[1].content.value = OneSlot /\ runs[1].pc = "done"
    /\ runs[2].kind = "manual" /\ runs[2].method = "simple" /\ Committed(2)

====
